---- MODULE Spec2Model ----
(***************************************************************************)
(* Model of neutorch/dataset/patch.py: the Patch class (paired image and  *)
(* label arrays with deferred boundary trimming and a cached center) and  *)
(* the AffinityPatch class (affinity map, local shape descriptor and      *)
(* per-channel accessors); and of the training loop of                    *)
(* neutorch/cli/train_affinity.py, as far as its loss report goes.        *)
(*                                                                         *)
(* A numpy array is a record [shape |-> tuple, data |-> its elements as   *)
(* nested tuples, one level per axis].  A Python tuple is                 *)
(* a TLA+ sequence, so Python's size[k] is size[k+1] here.                *)
(***************************************************************************)
EXTENDS Integers, Sequences, FiniteSets, TLC

VARIABLES
    patch,          \* the Patch object: [image, label, delayed_shrink_size]
    center_cache,   \* entries of the lru_cache wrapped around Patch.center
    result,         \* the last call on the Patch: [op, raised, value]
    start,          \* history: the patch when delayed_shrink_size was last zero
    declared,       \* history: componentwise sum of the margins declared since
    deferred_only,  \* history: no direct shrink since margins were declared
    image_in,       \* the image passed to AffinityPatch(image, label)
    label_in,       \* the label passed to AffinityPatch(image, label)
    subject,        \* AffinityPatch.subject: [image, label, affinity, lsd]
    lsd_call,       \* the arguments handed to get_local_shape_descriptors
    ap_result,      \* the last call on the AffinityPatch
    iter_start,         \* train(): --iter-start
    iter_stop,          \* train(): --iter-stop
    training_interval,  \* train(): --training-interval
    iter_idx,           \* train(): the index of the next iteration of the loop
    accumulated_loss,   \* train(): the running sum of the losses
    window,             \* history: the losses added since accumulated_loss was 0.
    report              \* what the last iteration printed as training loss

patch_vars == <<patch, center_cache, result, start, declared, deferred_only>>

ap_vars == <<image_in, label_in, subject, lsd_call, ap_result>>

train_vars == <<iter_start, iter_stop, training_interval, iter_idx,
                accumulated_loss, window, report>>

vars == <<patch_vars, ap_vars, train_vars>>

---------------------------------------------------------------------------
(* Bounds of the model *)

\* largest --iter-start of a training run
MaxIterStart == 4
\* largest --training-interval of a training run
MaxInterval == 3
\* the --iter-stop of a training run
MaxIterStop == 8
\* largest loss of one iteration, in whole units
MaxLoss == 2

\* spatial axis lengths of the arrays a Patch is constructed from
MaxDim == 2
\* largest margin in a tuple passed to shrink / accumulate
MaxMargin == 1
\* cap on the total of the accumulated delayed_shrink_size
MaxDelayed == 2
\* first-axis lengths of the labels an AffinityPatch is constructed from
MaxZ == 8
\* second- and third-axis lengths of those labels
MaxYX == 2
\* thickness, in voxels, of the constant blocks of those labels
MaxBlock == 4
\* channel indices passed to get_lsd_channel run from -1 to MaxChannel
MaxChannel == 5

---------------------------------------------------------------------------
(* Python and numpy primitives *)

Max(a, b) == IF a >= b THEN a ELSE b

Min(a, b) == IF a <= b THEN a ELSE b

RECURSIVE SumSeq(_)
SumSeq(s) == IF s = <<>> THEN 0 ELSE Head(s) + SumSeq(Tail(s))

\* np.any over a tuple of integers
NpAny(t) == \E i \in 1..Len(t) : t[i] # 0

\* zip(a, b): pairs up to the shorter of the two
Zip(a, b) == [i \in 1..Min(Len(a), Len(b)) |-> <<a[i], b[i]>>]

\* a slice bound as Python resolves it on an axis of length n: a negative
\* bound counts from the end, and every bound is clamped into 0..n
SliceBound(i, n) == IF i < 0 THEN Max(i + n, 0) ELSE Min(i, n)

\* the half-open index range [lo, hi) that the slice start:stop selects on an
\* axis of length n (empty when hi <= lo)
SliceRange(startIdx, stopIdx, n) ==
    LET lo == SliceBound(startIdx, n)
        hi == SliceBound(stopIdx, n)
    IN  <<lo, Max(lo, hi)>>

\* arr[i] for a 5-d array and a 0-based index tuple i
At5(arr, i) == arr.data[i[1] + 1][i[2] + 1][i[3] + 1][i[4] + 1][i[5] + 1]

\* arr[..., z0:z1, y0:y1, x0:x1] on a 5-d array
SliceSpatial(arr, z0, z1, y0, y1, x0, x1) ==
    LET rz == SliceRange(z0, z1, arr.shape[3])
        ry == SliceRange(y0, y1, arr.shape[4])
        rx == SliceRange(x0, x1, arr.shape[5])
        newShape == <<arr.shape[1], arr.shape[2],
                      rz[2] - rz[1], ry[2] - ry[1], rx[2] - rx[1]>>
    IN  [shape |-> newShape,
         data  |-> [n \in 1..newShape[1] |-> [c \in 1..newShape[2] |->
                    [z \in 1..newShape[3] |-> [y \in 1..newShape[4] |->
                       SubSeq(arr.data[n][c][z + rz[1]][y + ry[1]],
                              rx[1] + 1, rx[2])]]]]]

---------------------------------------------------------------------------
(* class Patch *)

DefaultDelayedShrinkSize == <<0, 0, 0, 0, 0, 0>>

\* Patch.__init__
PatchInit(image, label, delayed) ==
    IF image.shape # label.shape
    THEN [raised |-> "AssertionError", self |-> <<>>]
    ELSE [raised |-> "none",
          self   |-> [image |-> image, label |-> label,
                      delayed_shrink_size |-> delayed]]

\* Patch.shape
Shape(self) == self.image.shape

\* accumulate that overwrites the stored margins instead of adding to them
AccumulateOverwrite(self, shrink_size) ==
    [self EXCEPT !.delayed_shrink_size = shrink_size]

\* Patch.accumulate_delayed_shrink_size
AccumulateDelayedShrinkSize(self, shrink_size) ==
    LET pairs == Zip(self.delayed_shrink_size, shrink_size)
    IN  [self EXCEPT !.delayed_shrink_size =
            [i \in 1..Len(pairs) |-> pairs[i][1] + pairs[i][2]]]

\* shrink that trims the image and leaves the label as it was
ShrinkImageOnly(self, size) ==
    IF Len(size) # 6
    THEN [raised |-> "AssertionError", self |-> self]
    ELSE LET s == self.image.shape
         IN  [raised |-> "none",
              self   |-> [self EXCEPT
                  !.image = SliceSpatial(self.image,
                                size[1], s[3] - size[4],
                                size[2], s[4] - size[5],
                                size[3], s[5] - size[6])]]

\* Patch.shrink: the outcome and the object after the call
Shrink(self, size) ==
    IF Len(size) # 6
    THEN [raised |-> "AssertionError", self |-> self]
    ELSE IF Len(Shape(self)) # 5
    THEN [raised |-> "ValueError", self |-> self]
    ELSE LET z == Shape(self)[3]
             y == Shape(self)[4]
             x == Shape(self)[5]
             cut(arr) == SliceSpatial(arr, size[1], z - size[4],
                                           size[2], y - size[5],
                                           size[3], x - size[6])
         IN  [raised |-> "none",
              self   |-> [self EXCEPT !.image = cut(self.image),
                                      !.label = cut(self.label)]]

\* apply that trims and keeps the margins
ApplyNoReset(self) ==
    IF ~NpAny(self.delayed_shrink_size)
    THEN [raised |-> "none", self |-> self]
    ELSE Shrink(self, self.delayed_shrink_size)

\* Patch.apply_delayed_shrink_size
ApplyDelayedShrinkSize(self) ==
    IF ~NpAny(self.delayed_shrink_size)
    THEN [raised |-> "none", self |-> self]
    ELSE LET r == Shrink(self, self.delayed_shrink_size)
         IN  IF r.raised # "none"
             THEN r
             ELSE [raised |-> "none",
                   self   |-> [r.self EXCEPT
                       !.delayed_shrink_size = <<0, 0, 0, 0, 0, 0>>]]

\* the body of Patch.center
ComputeCenter(self) == [i \in 1..Len(Shape(self)) |-> Shape(self)[i] \div 2]

\* Patch.center behind lru_cache: the cache is keyed by the object alone, so
\* an entry stored for it is returned whatever the object's fields are now
Center(self, cache) ==
    IF cache # {}
    THEN [value |-> CHOOSE v \in cache : TRUE, cache |-> cache]
    ELSE [value |-> ComputeCenter(self), cache |-> {ComputeCenter(self)}]

---------------------------------------------------------------------------
(* Inputs *)

\* shapes (batch, channel, z, y, x) of the arrays a Patch is built from
PatchShapes == {<<1, 1, z, 2, 1>> : z \in 1..MaxDim}

\* an image whose voxels are all different: each holds its own flat index
ImageOf(shape) ==
    [shape |-> shape,
     data  |-> [n \in 1..shape[1] |-> [c \in 1..shape[2] |->
                [z \in 1..shape[3] |-> [y \in 1..shape[4] |->
                 [x \in 1..shape[5] |->
                    ((z - 1) * shape[4] + (y - 1)) * shape[5] + (x - 1)]]]]]]

\* a label volume: a checkerboard of the labels 1 and 2
LabelOf(shape) ==
    [shape |-> shape,
     data  |-> [n \in 1..shape[1] |-> [c \in 1..shape[2] |->
                [z \in 1..shape[3] |-> [y \in 1..shape[4] |->
                 [x \in 1..shape[5] |-> 1 + ((z + y + x + 1) % 2)]]]]]]

\* a margin of m voxels on one face (1..3 the low faces of z, y, x and 4..6
\* the high ones)
OneFace(face, m) == [i \in 1..6 |-> IF i = face THEN m ELSE 0]

\* 6-tuples of non-negative margins: a margin on one face, or the same
\* margins (a, b, c, a, b, c) on the two faces of each axis
ShrinkSizes ==
    {OneFace(face, m) : face \in 1..6, m \in 0..MaxMargin}
    \cup {<<a, b, c, a, b, c>> : a \in 0..MaxMargin, b \in 0..MaxMargin,
                                 c \in 0..MaxMargin}

\* tuples of the wrong arity
BadAritySizes == {<<1, 1, 1>>, <<0, 0, 0, 0, 0>>, <<1, 0, 0, 1, 0, 0, 0>>}

---------------------------------------------------------------------------
(* class AffinityPatch *)

\* np.expand_dims(arr, axis=-1): the new axis put last
ExpandDimsLast(arr) == [shape |-> arr.shape \o <<1>>, data |-> arr.data]

\* np.expand_dims(arr, axis=0)
ExpandDims(arr) == [shape |-> <<1>> \o arr.shape, data |-> <<arr.data>>]

\* np.zeros((3, z0, y0, x0))
Zeros4(shape) ==
    [shape |-> shape,
     data  |-> [c \in 1..shape[1] |-> [z \in 1..shape[2] |->
                [y \in 1..shape[3] |-> [x \in 1..shape[4] |-> 0]]]]]

\* arr[rz, ry, rx] on a 3-d array, each range a half-open pair <<lo, hi>>
Sub3(arr, rz, ry, rx) ==
    [shape |-> <<rz[2] - rz[1], ry[2] - ry[1], rx[2] - rx[1]>>,
     data  |-> [z \in 1..(rz[2] - rz[1]) |-> [y \in 1..(ry[2] - ry[1]) |->
                  SubSeq(arr.data[z + rz[1]][y + ry[1]], rx[1] + 1, rx[2])]]]

\* a == b elementwise on two 3-d arrays of one shape, as 0 / 1
EqualElements(a, b) ==
    [shape |-> a.shape,
     data  |-> [z \in 1..a.shape[1] |-> [y \in 1..a.shape[2] |->
                [x \in 1..a.shape[3] |->
                   IF a.data[z][y][x] = b.data[z][y][x] THEN 1 ELSE 0]]]]

\* arr[ch, rz, ry, rx] = vals on a 4-d array
SetBlock(arr, ch, rz, ry, rx, vals) ==
    [shape |-> arr.shape,
     data  |-> [c \in 1..arr.shape[1] |-> [z \in 1..arr.shape[2] |->
                [y \in 1..arr.shape[3] |-> [x \in 1..arr.shape[4] |->
                   IF /\ c = ch + 1
                      /\ rz[1] < z /\ z <= rz[2]
                      /\ ry[1] < y /\ y <= ry[2]
                      /\ rx[1] < x /\ x <= rx[2]
                   THEN vals.data[z - rz[1]][y - ry[1]][x - rx[1]]
                   ELSE arr.data[c][z][y][x]]]]]]

\* the affinity written one voxel late: channel a at p compares p with p - 1
ComputeAffinityBackward(label) ==
    LET z0 == label.shape[1]
        y0 == label.shape[2]
        x0 == label.shape[3]
        allZ == SliceRange(0, z0, z0)
        allY == SliceRange(0, y0, y0)
        allX == SliceRange(0, x0, x0)
        zeros == Zeros4(<<3, z0, y0, x0>>)
        withZ == SetBlock(zeros, 0, SliceRange(1, z0, z0), allY, allX,
                   EqualElements(
                     Sub3(label, SliceRange(1, z0, z0), allY, allX),
                     Sub3(label, SliceRange(0, -1, z0), allY, allX)))
        withY == SetBlock(withZ, 1, allZ, SliceRange(1, y0, y0), allX,
                   EqualElements(
                     Sub3(label, allZ, SliceRange(1, y0, y0), allX),
                     Sub3(label, allZ, SliceRange(0, -1, y0), allX)))
    IN  SetBlock(withY, 2, allZ, allY, SliceRange(1, x0, x0),
                   EqualElements(
                     Sub3(label, allZ, allY, SliceRange(1, x0, x0)),
                     Sub3(label, allZ, allY, SliceRange(0, -1, x0))))

\* AffinityPatch.__compute_affinity
ComputeAffinity(label) ==
    LET z0 == label.shape[1]
        y0 == label.shape[2]
        x0 == label.shape[3]
        allZ == SliceRange(0, z0, z0)
        allY == SliceRange(0, y0, y0)
        allX == SliceRange(0, x0, x0)
        zeros == Zeros4(<<3, z0, y0, x0>>)
        \* affinty[0, 0:-1, :, :] = label[1:, :, :] == label[0:-1, :, :]
        withZ == SetBlock(zeros, 0, SliceRange(0, -1, z0), allY, allX,
                   EqualElements(
                     Sub3(label, SliceRange(1, z0, z0), allY, allX),
                     Sub3(label, SliceRange(0, -1, z0), allY, allX)))
        \* affinty[1, :, 0:-1, :] = label[:, 1:, :] == label[:, 0:-1, :]
        withY == SetBlock(withZ, 1, allZ, SliceRange(0, -1, y0), allX,
                   EqualElements(
                     Sub3(label, allZ, SliceRange(1, y0, y0), allX),
                     Sub3(label, allZ, SliceRange(0, -1, y0), allX)))
        \* affinty[2, :, :, 0:-1] = label[:, :, 1:] == label[:, :, 0:-1]
    IN  SetBlock(withY, 2, allZ, allY, SliceRange(0, -1, x0),
                   EqualElements(
                     Sub3(label, allZ, allY, SliceRange(1, x0, x0)),
                     Sub3(label, allZ, allY, SliceRange(0, -1, x0))))

\* round(num / den) as Python rounds a float: to the nearest integer, and a
\* half to the even one (num >= 0, den > 0)
PyRound(num, den) ==
    LET q == num \div den
        r == num % den
    IN  IF 2 * r > den \/ (2 * r = den /\ q % 2 = 1) THEN q + 1 ELSE q

\* int(num / den): the fraction cut off (num >= 0, den > 0)
PyInt(num, den) == num \div den

\* sigma taken as round(label.shape[0] * 0.15)
SigmaRounded(label) == PyRound(label.shape[1] * 15, 100)

\* sigma = int(label.shape[0] * 0.15).  The product is a double; for every
\* length up to 5000 its integer part is that of the exact 15 * n / 100.
Sigma(label) == PyInt(label.shape[1] * 15, 100)

\* get_local_shape_descriptors(label, sigma_tuple): an array of 10 channels
\* over the label's voxels; its values are not modelled
GetLocalShapeDescriptors(label, sigma_tuple) ==
    [shape |-> <<10>> \o label.shape]

\* AffinityPatch.__compute_lsd: the call it makes and the array it returns
ComputeLsd(label, sigma) ==
    LET sigma_tuple == <<sigma, sigma, sigma>>
    IN  [call |-> [label_shape |-> label.shape, sigma |-> sigma_tuple],
         lsd  |-> GetLocalShapeDescriptors(label, sigma_tuple)]

\* AffinityPatch.__init__
AffinityPatchInit(image, label) ==
    IF image.shape # label.shape
    THEN [raised |-> "AssertionError", subject |-> <<>>, lsd_call |-> <<>>]
    ELSE LET image_tensor == ExpandDims(image)
             label_tensor == ExpandDims(label)
             affinity_tensor == ComputeAffinity(label)
             computed == ComputeLsd(label, Sigma(label))
         IN  [raised   |-> "none",
              subject  |-> [image |-> image_tensor, label |-> label_tensor,
                            affinity |-> affinity_tensor,
                            lsd |-> computed.lsd],
              lsd_call |-> computed.call]

\* AffinityPatch.shape
AffinityPatchShape(subj) == subj.image.shape

\* lsd[lo:hi, :, :, :] moved by np.moveaxis(..., 0, 3): the shape it has
MoveAxisOfChannels(lsd, lo, hi) ==
    LET r == SliceRange(lo, hi, lsd.shape[1])
    IN  <<lsd.shape[2], lsd.shape[3], lsd.shape[4], r[2] - r[1]>>

\* AffinityPatch.get_lsd_channel: what the call gives back
GetLsdChannel(subj, channel) ==
    IF channel = 0
    THEN [kind |-> "ndarray", shape |-> MoveAxisOfChannels(subj.lsd, 0, 3)]
    ELSE IF channel = 1
    THEN [kind |-> "ndarray", shape |-> MoveAxisOfChannels(subj.lsd, 3, 6)]
    ELSE IF channel = 2
    THEN [kind |-> "ndarray", shape |-> MoveAxisOfChannels(subj.lsd, 6, 9)]
    ELSE IF channel = 3
    THEN [kind |-> "ndarray",
          shape |-> <<subj.lsd.shape[2], subj.lsd.shape[3],
                      subj.lsd.shape[4]>>]
    ELSE [kind |-> "None", shape |-> <<>>]

---------------------------------------------------------------------------
(* Inputs of AffinityPatch *)

\* shapes (z, y, x) of the image and label an AffinityPatch is built from
VolumeShapes ==
    {<<z, y, x>> : z \in 1..MaxZ, y \in 1..MaxYX, x \in 1..MaxYX}

\* an image volume: each voxel holds its own flat index
VolumeImage(shape) ==
    [shape |-> shape,
     data  |-> [z \in 1..shape[1] |-> [y \in 1..shape[2] |->
                [x \in 1..shape[3] |->
                   ((z - 1) * shape[2] + (y - 1)) * shape[3] + (x - 1)]]]]

\* a label volume of the labels 1 and 2 in constant blocks: slabs of the
\* given thickness across the direction dir (a 0 / 1 vector over z, y, x);
\* dir = <<0, 0, 0>> is one constant label, thickness 1 with dir =
\* <<1, 1, 1>> a checkerboard
BlockLabel(shape, dir, thickness) ==
    [shape |-> shape,
     data  |-> [z \in 1..shape[1] |-> [y \in 1..shape[2] |->
                [x \in 1..shape[3] |->
                   1 + (((dir[1] * (z - 1) + dir[2] * (y - 1)
                          + dir[3] * (x - 1)) \div thickness) % 2)]]]]

Directions == {<<dz, dy, dx>> : dz \in 0..1, dy \in 0..1, dx \in 0..1}

LsdChannels == (-1)..MaxChannel

---------------------------------------------------------------------------
(* The Patch as a state machine *)

\* the Patch after Patch(image, label) succeeded
PatchConstructed ==
    \E imageShape \in PatchShapes, labelShape \in PatchShapes :
        LET r == PatchInit(ImageOf(imageShape), LabelOf(labelShape),
                           DefaultDelayedShrinkSize)
        IN  /\ r.raised = "none"
            /\ patch = r.self
            /\ center_cache = {}
            /\ result = [op |-> "init", raised |-> "none", value |-> <<>>]
            /\ start = [image |-> r.self.image, label |-> r.self.label]
            /\ declared = <<0, 0, 0, 0, 0, 0>>
            /\ deferred_only = TRUE

\* the AffinityPatch after AffinityPatch(image, label) succeeded
AffinityPatchConstructed ==
    \E imageShape \in VolumeShapes, labelShape \in VolumeShapes,
       dir \in Directions, thickness \in 1..MaxBlock :
        LET image == VolumeImage(imageShape)
            label == BlockLabel(labelShape, dir, thickness)
            r == AffinityPatchInit(image, label)
        IN  /\ r.raised = "none"
            /\ image_in = image
            /\ label_in = label
            /\ subject = r.subject
            /\ lsd_call = r.lsd_call
            /\ ap_result = [op |-> "init", channel |-> 0, kind |-> "None",
                            shape |-> <<>>]

\* no Patch in play
NoPatch ==
    /\ patch = <<>>
    /\ center_cache = {}
    /\ result = [op |-> "none", raised |-> "none", value |-> <<>>]
    /\ start = <<>>
    /\ declared = <<>>
    /\ deferred_only = TRUE

\* no AffinityPatch in play
NoAffinityPatch ==
    /\ image_in = <<>>
    /\ label_in = <<>>
    /\ subject = <<>>
    /\ lsd_call = <<>>
    /\ ap_result = [op |-> "none", channel |-> 0, kind |-> "None",
                    shape |-> <<>>]

\* train() not running
NoTraining ==
    /\ iter_start = 0
    /\ iter_stop = 0
    /\ training_interval = 1
    /\ iter_idx = 0
    /\ accumulated_loss = 0
    /\ window = <<>>
    /\ report = [printed |-> FALSE]

Init == PatchConstructed /\ NoAffinityPatch /\ NoTraining

\* History: a call that follows an apply starts a new round of declarations
\* from the patch as it is now; otherwise the round in progress continues.
RoundStart ==
    IF result.op = "apply"
    THEN [image |-> patch.image, label |-> patch.label]
    ELSE start

RoundDeclared == IF result.op = "apply" THEN <<0, 0, 0, 0, 0, 0>> ELSE declared

RoundDeferredOnly == IF result.op = "apply" THEN TRUE ELSE deferred_only

KeepRound ==
    /\ start' = RoundStart
    /\ declared' = RoundDeclared
    /\ deferred_only' = RoundDeferredOnly

\* patch.accumulate_delayed_shrink_size(shrink_size)
AccumulateStep(shrink_size) ==
    /\ SumSeq(patch.delayed_shrink_size) + SumSeq(shrink_size) <= MaxDelayed
    /\ patch' = AccumulateDelayedShrinkSize(patch, shrink_size)
    /\ result' = [op |-> "accumulate", raised |-> "none", value |-> <<>>]
    /\ start' = RoundStart
    /\ deferred_only' = RoundDeferredOnly
    /\ declared' = IF RoundDeferredOnly
                   THEN [i \in 1..6 |-> RoundDeclared[i] + shrink_size[i]]
                   ELSE RoundDeclared
    /\ UNCHANGED <<center_cache, ap_vars, train_vars>>

Accumulate == \E shrink_size \in ShrinkSizes : AccumulateStep(shrink_size)

\* patch.shrink(size)
ShrinkStep(size) ==
    LET r == Shrink(patch, size)
    IN  /\ patch' = r.self
        /\ result' = [op |-> "shrink", raised |-> r.raised, value |-> <<>>]
        /\ IF r.raised # "none"
           THEN KeepRound
           ELSE \* a direct trim moves the start of an empty round, and
                \* ends a round in which margins are pending
                /\ start' = [image |-> r.self.image, label |-> r.self.label]
                /\ declared' = <<0, 0, 0, 0, 0, 0>>
                /\ deferred_only' = (RoundDeferredOnly
                                     /\ ~NpAny(patch.delayed_shrink_size))
        /\ UNCHANGED <<center_cache, ap_vars, train_vars>>

ShrinkCall == \E size \in ShrinkSizes \cup BadAritySizes : ShrinkStep(size)

\* patch.apply_delayed_shrink_size()
Apply ==
    LET r == ApplyDelayedShrinkSize(patch)
    IN  /\ patch' = r.self
        /\ result' = [op |-> "apply", raised |-> r.raised, value |-> <<>>]
        /\ KeepRound
        /\ UNCHANGED <<center_cache, ap_vars, train_vars>>

\* patch.center
ReadCenter ==
    LET r == Center(patch, center_cache)
    IN  /\ center_cache' = r.cache
        /\ result' = [op |-> "center", raised |-> "none", value |-> r.value]
        /\ KeepRound
        /\ UNCHANGED <<patch, ap_vars, train_vars>>

\* the mutating operations of a Patch, in any order
Next ==
    \/ Accumulate
    \/ ShrinkCall
    \/ Apply

Spec == Init /\ [][Next]_vars

\* the same with reads of center in between
NextCenter ==
    \/ Accumulate
    \/ ShrinkCall
    \/ Apply
    \/ ReadCenter

SpecCenter == Init /\ [][NextCenter]_vars

\* the tuples a caller can hand to accumulate_delayed_shrink_size: the
\* 6-tuples, and tuples of 3, 5 and 7 components
AnyAritySizes ==
    ShrinkSizes \cup {<<1, 0, 0>>, <<0, 0, 0, 0, 0>>, <<0, 1, 0, 0, 0, 0, 1>>}

\* patch.accumulate_delayed_shrink_size(shrink_size) with a tuple of any
\* length.  The history of the round is kept for 6-tuples only (Accumulate);
\* here the round is marked as not followed.
AccumulateAnyArity ==
    \E shrink_size \in AnyAritySizes :
        /\ SumSeq(patch.delayed_shrink_size) + SumSeq(shrink_size)
               <= MaxDelayed
        /\ patch' = AccumulateDelayedShrinkSize(patch, shrink_size)
        /\ result' = [op |-> "accumulate", raised |-> "none", value |-> <<>>]
        /\ start' = RoundStart
        /\ declared' = RoundDeclared
        /\ deferred_only' = FALSE
        /\ UNCHANGED <<center_cache, ap_vars, train_vars>>

\* declarations of any length, and their application
NextArity ==
    \/ AccumulateAnyArity
    \/ Apply

SpecArity == Init /\ [][NextArity]_vars

---------------------------------------------------------------------------
(* The AffinityPatch as a state machine *)

InitAffinity == NoPatch /\ AffinityPatchConstructed /\ NoTraining

\* affinity_patch.shape
ReadShape ==
    /\ ap_result' = [op |-> "shape", channel |-> 0, kind |-> "tuple",
                     shape |-> AffinityPatchShape(subject)]
    /\ UNCHANGED <<patch_vars, image_in, label_in, subject, lsd_call,
                    train_vars>>

\* affinity_patch.get_lsd_channel(channel)
CallGetLsdChannel ==
    \E channel \in LsdChannels :
        LET r == GetLsdChannel(subject, channel)
        IN  /\ ap_result' = [op |-> "get_lsd_channel", channel |-> channel,
                             kind |-> r.kind, shape |-> r.shape]
            /\ UNCHANGED <<patch_vars, image_in, label_in, subject, lsd_call,
                    train_vars>>

NextAffinity ==
    \/ ReadShape
    \/ CallGetLsdChannel

SpecAffinity == InitAffinity /\ [][NextAffinity]_vars

---------------------------------------------------------------------------
(* The training loop of train() as a state machine *)

\* the values loss.cpu().tolist() takes, in whole units
Losses == 1..MaxLoss

\* train() at line 96, before the first iteration of the loop
TrainStarted ==
    \E s \in 0..MaxIterStart, t \in 1..MaxInterval :
        /\ iter_start = s
        /\ iter_stop = MaxIterStop
        /\ training_interval = t
        /\ iter_idx = s
        /\ accumulated_loss = 0
        /\ window = <<>>
        /\ report = [printed |-> FALSE]

InitTrain == NoPatch /\ NoAffinityPatch /\ TrainStarted

\* one iteration of "for iter_idx in range(iter_start, iter_stop)": the loss
\* of the batch is added to accumulated_loss; then, at a multiple of
\* training_interval above 0, accumulated_loss / training_interval (scaled by
\* the constant patch_voxel_num) is printed and accumulated_loss is set to 0.
TrainIteration ==
    \E loss \in Losses :
        LET sum == accumulated_loss + loss
            added == Append(window, loss)
        IN  /\ iter_idx < iter_stop
            /\ IF iter_idx % training_interval = 0 /\ iter_idx > 0
               THEN /\ report' = [printed |-> TRUE,
                                  iter_idx |-> iter_idx,
                                  accumulated_loss |-> sum,
                                  divisor |-> training_interval,
                                  window |-> added]
                    /\ accumulated_loss' = 0
                    /\ window' = <<>>
               ELSE /\ report' = [printed |-> FALSE]
                    /\ accumulated_loss' = sum
                    /\ window' = added
            /\ iter_idx' = iter_idx + 1
            /\ UNCHANGED <<patch_vars, ap_vars, iter_start, iter_stop,
                           training_interval>>

NextTrain == TrainIteration

SpecTrain == InitTrain /\ [][NextTrain]_vars

---------------------------------------------------------------------------
(* Properties *)

\* arr[c, z, y, x] for a 4-d array and 0-based indices
At4(arr, c, p) == arr.data[c + 1][p[1] + 1][p[2] + 1][p[3] + 1]

\* arr[z, y, x] for a 3-d array and 0-based indices
At3(arr, p) == arr.data[p[1] + 1][p[2] + 1][p[3] + 1]

\* the 0-based index tuples of a 3-d shape
Positions(shape) ==
    {<<z, y, x>> : z \in 0..(shape[1] - 1), y \in 0..(shape[2] - 1),
                   x \in 0..(shape[3] - 1)}

\* C1: the affinity of a label L of shape (Z, Y, X) has shape (3, Z, Y, X),
\* and channel a at position p is 1 exactly when p has a +1 neighbour along
\* axis a that carries the same label as p, and 0 otherwise (so the last
\* slice along axis a of channel a is all 0).
C1_AffinityMatchesNeighbours ==
    LET L == label_in
        A == subject.affinity
    IN  /\ A.shape = <<3>> \o L.shape
        /\ \A a \in 0..2 : \A p \in Positions(L.shape) :
              LET q == [p EXCEPT ![a + 1] = @ + 1]
                  same == q[a + 1] < L.shape[a + 1] /\ At3(L, p) = At3(L, q)
              IN  At4(A, a, p) = IF same THEN 1 ELSE 0

\* C1 witness: the label of two constant blocks, label[:4] = 1 and
\* label[4:] = 2, over 8 slices; channel 0 is 1 except at z = 3 and z = 7.
C1_Witness_TwoBlocks ==
    /\ label_in = BlockLabel(<<8, 2, 2>>, <<1, 0, 0>>, 4)
    /\ \A p \in Positions(<<8, 2, 2>>) :
          /\ At3(label_in, p) = IF p[1] < 4 THEN 1 ELSE 2
          /\ At4(subject.affinity, 0, p) = IF p[1] \in {3, 7} THEN 0 ELSE 1

\* the patch a round of declarations started from, with nothing pending
StartPatch ==
    [image |-> start.image, label |-> start.label,
     delayed_shrink_size |-> <<0, 0, 0, 0, 0, 0>>]

\* C2: after margins were only declared (accumulate calls with 6-tuples of
\* non-negative integers on a patch with nothing pending) and then applied,
\* image and label are what one shrink with the componentwise sum of the
\* declared tuples makes of the patch the declarations started from.
C2_DeferredEqualsImmediate ==
    (result.op = "apply" /\ deferred_only) =>
        LET immediate == Shrink(StartPatch, declared)
        IN  /\ result.raised = "none"
            /\ immediate.raised = "none"
            /\ patch.image = immediate.self.image
            /\ patch.label = immediate.self.label

\* C2 witness: margins declared in two calls, (1,0,0,0,0,0) and (0,1,0,0,0,0),
\* were applied to a 2 x 2 x 1 patch and left one voxel.
C2_Witness_TwoDeclarationsApplied ==
    /\ result.op = "apply"
    /\ deferred_only
    /\ declared = <<1, 1, 0, 0, 0, 0>>
    /\ start.image.shape = <<1, 1, 2, 2, 1>>
    /\ patch.image.shape = <<1, 1, 1, 1, 1>>
    /\ At5(patch.image, <<0, 0, 0, 0, 0>>) = 3

\* C3: image.shape equals label.shape in every state reached from a
\* constructed Patch by accumulate, shrink and apply calls.
C3_ImageAndLabelShapesEqual == patch.image.shape = patch.label.shape

\* C3 witness: a shrink call whose margins exceed the z extent has emptied
\* the arrays.
C3_Witness_ShrunkToEmpty ==
    /\ result.op = "shrink"
    /\ result.raised = "none"
    /\ patch.image.shape[3] = 0
    /\ patch.label.shape[4] = 2

\* the kept voxels of arr are those of old from index (a, b, c) on
KeptFrom(arr, old, a, b, c) ==
    \A n \in 0..(arr.shape[1] - 1), ch \in 0..(arr.shape[2] - 1),
       z \in 0..(arr.shape[3] - 1), y \in 0..(arr.shape[4] - 1),
       x \in 0..(arr.shape[5] - 1) :
        At5(arr, <<n, ch, z, y, x>>) = At5(old, <<n, ch, z + a, y + b, x + c>>)

\* C4: shrink with margins (a, b, c, a, b, c) on arrays of shape
\* (_, _, z, y, x) leaves the shape (_, _, z - 2a, y - 2b, x - 2c), the
\* leading dimensions unchanged, and keeps the voxels at
\* [a, z - a) x [b, y - b) x [c, x - c).
C4_ShrinkTakesTwiceTheMargin ==
    [][\A a \in 0..MaxMargin, b \in 0..MaxMargin, c \in 0..MaxMargin :
          ShrinkStep(<<a, b, c, a, b, c>>) =>
              LET s == Shape(patch)
                  after == <<s[1], s[2], s[3] - 2 * a, s[4] - 2 * b,
                             s[5] - 2 * c>>
              IN  /\ patch'.image.shape = after
                  /\ patch'.label.shape = after
                  /\ KeptFrom(patch'.image, patch.image, a, b, c)
                  /\ KeptFrom(patch'.label, patch.label, a, b, c)]_vars

\* C5: after apply_delayed_shrink_size the delayed_shrink_size is all zero
\* and a second call right after it changes nothing; a call made when
\* delayed_shrink_size is all zero changes nothing.
C5_ApplyIsIdempotent ==
    /\ result.op = "apply" =>
          /\ result.raised = "none"
          /\ ~NpAny(patch.delayed_shrink_size)
    /\ ~NpAny(patch.delayed_shrink_size) =>
          ApplyDelayedShrinkSize(patch) = [raised |-> "none", self |-> patch]

\* C5 witness: an apply that trimmed the arrays and reset the margins.
C5_Witness_AppliedAndReset ==
    /\ result.op = "apply"
    /\ NpAny(declared)
    /\ patch.image # start.image
    /\ patch.delayed_shrink_size = <<0, 0, 0, 0, 0, 0>>

\* C6: a read of center returns tuple(s // 2 for s in shape) of the patch's
\* current shape, also after shrink or apply changed the shape.
C6_CenterIsOfCurrentShape ==
    result.op = "center" =>
        result.value = [i \in 1..Len(patch.image.shape) |->
                           patch.image.shape[i] \div 2]

\* C7 as stated: AffinityPatch.shape is the shape of the image passed to the
\* constructor.
C7_ShapeIsImageShape ==
    ap_result.op = "shape" => ap_result.shape = image_in.shape

\* C7 as amended: AffinityPatch.shape is (1,) + image.shape, the shape of the
\* image passed to the constructor behind the channel axis the constructor
\* adds.
C7_ShapeIsImageShapeBehindChannelAxis ==
    ap_result.op = "shape" =>
        /\ Len(ap_result.shape) = Len(image_in.shape) + 1
        /\ ap_result.shape[1] = 1
        /\ \A i \in 1..Len(image_in.shape) :
              ap_result.shape[i + 1] = image_in.shape[i]

\* C7 witness: the shape was read from an AffinityPatch built from 8 x 2 x 2
\* arrays.
C7_Witness_ShapeRead ==
    /\ ap_result.op = "shape"
    /\ image_in.shape = <<8, 2, 2>>
    /\ ap_result.shape = <<1, 8, 2, 2>>

\* C8: get_lsd_channel with a channel index outside {0, 1, 2, 3} raises an
\* error; it returns nothing to the caller.
C8_BadChannelRaises ==
    (ap_result.op = "get_lsd_channel" /\ ap_result.channel \notin 0..3) =>
        ap_result.kind = "raise"

\* a margin tuple of the wrong arity, or one whose low and high margins on
\* some axis together exceed that axis's extent
InvalidShrinkSpec(self, size) ==
    \/ Len(size) # 6
    \/ \E k \in 1..3 : size[k] + size[k + 3] > Shape(self)[k + 2]

\* C9: shrink with a margin tuple of the wrong arity, or with margins that
\* exceed the current extent, fails with an error and leaves image and label
\* unchanged.
C9_InvalidShrinkRaises ==
    [][\A size \in ShrinkSizes \cup BadAritySizes :
          (ShrinkStep(size) /\ InvalidShrinkSpec(patch, size)) =>
              /\ result'.raised # "none"
              /\ patch'.image = patch.image
              /\ patch'.label = patch.label]_vars

\* C10 as stated: the sigma handed to the local shape descriptors is
\* (s, s, s) with s = round(0.15 * n), n the label's first-axis length.
C10_SigmaIsRounded ==
    LET n == label_in.shape[1]
        s == PyRound(15 * n, 100)
    IN  lsd_call.sigma = <<s, s, s>>

\* C10 as amended: the sigma is (s, s, s) with s = int(0.15 * n), the integer
\* part of 0.15 * n: s <= 0.15 * n < s + 1.
C10_SigmaIsIntegerPart ==
    LET n == label_in.shape[1]
        s == lsd_call.sigma[1]
    IN  /\ lsd_call.sigma = <<s, s, s>>
        /\ 100 * s <= 15 * n
        /\ 15 * n < 100 * (s + 1)

\* C10 witness: a label of 7 slices, the shortest with a sigma above 0.
C10_Witness_SevenSlices ==
    /\ label_in.shape[1] = 7
    /\ lsd_call.sigma = <<1, 1, 1>>
    /\ lsd_call.label_shape = label_in.shape

\* C11: a Patch constructed with the default delayed_shrink_size keeps a
\* delayed_shrink_size of exactly 6 components whatever tuples are passed to
\* accumulate_delayed_shrink_size, so that apply_delayed_shrink_size never
\* fails the arity assertion of shrink.
C11_DelayedShrinkSizeHasSixComponents ==
    /\ Len(patch.delayed_shrink_size) = 6
    /\ result.op = "apply" => result.raised # "AssertionError"

\* C12: whenever the training loss is printed, the accumulated_loss that is
\* divided by training_interval is the sum of the losses of exactly
\* training_interval iterations, and accumulated_loss is 0 right after.
C12_ReportSumsOneInterval ==
    report.printed =>
        /\ report.divisor = training_interval
        /\ report.accumulated_loss = SumSeq(report.window)
        /\ Len(report.window) = training_interval
        /\ accumulated_loss = 0

====
